---- MODULE Spec2Model ----
(***************************************************************************)
(* A model of the ceros-ski player state machine (src/src/Entities/Skier.ts) *)
(* and of the frame orchestrator (src/src/Core/Game.ts).                     *)
(*                                                                           *)
(* A coordinate is kept exactly as the pair [whole, diag], standing for the  *)
(* number whole + diag / DIAGONAL_SPEED_REDUCER: the straight moves add to   *)
(* whole, the diagonal moves add the speed to diag.  The obstacles, the      *)
(* clock, the image store and the rhino are outside the modelled files: what *)
(* they return in a frame is an input of the frame.                          *)
(*                                                                           *)
(* The modelled code reads the position only to add to it and to compute the *)
(* bounds of the collision search, whose outcome is an input here, so every  *)
(* behaviour is the same from any starting point.  Each handler therefore    *)
(* starts from the origin: skier.position is the position relative to where  *)
(* the skier was when the last handler began, its displacement.              *)
(***************************************************************************)
EXTENDS Integers, Sequences, FiniteSets, TLC

(* ------------------------------ bounds --------------------------------- *)

\* frames stop once the score would pass MaxScore
MaxScore == 11

\* frames stop once the speed would pass MaxSpeed
MaxSpeed == 6

\* a resume is not taken once MaxPending frame callbacks are scheduled
MaxPending == 2

\* the obstacles a collision search goes through
MaxObstacles == 2

(* ------------------------- program constants --------------------------- *)

STARTING_SPEED == 5

DIRECTION_LEFT == 0

DIRECTION_LEFT_DOWN == 1

DIRECTION_DOWN == 2

DIRECTION_RIGHT_DOWN == 3

DIRECTION_RIGHT == 4

\* Constants.ts is not among the source files: the threshold of the spec's scenario
SPEED_INCREASE_THRESHOLD == 10

\* the number of images of IMAGES_JUMPING
IMAGES_JUMPING == 5

STATE_SKIING == "skiing"

STATE_JUMPING == "jumping"

STATE_CRASHED == "crashed"

STATE_DEAD == "dead"

STATE_PLAYING == "playing"

STATE_PAUSED == "paused"

\* the image names of the obstacles
TREE == "tree"

ROCK1 == "rock1"

ROCK2 == "rock2"

JUMP_RAMP == "jumpRamp"

ObstacleNames == {TREE, ROCK1, ROCK2, JUMP_RAMP}

\* what the search of checkIfHitObstacle finds: an obstacle's image name, or nothing
NONE == "none"

JUMPABLE_OBSTACLES == {ROCK1, ROCK2, JUMP_RAMP}

\* the keys of KEYS, and one key that is none of them
KEYS == {"SPACE", "LEFT", "RIGHT", "UP", "DOWN", "PAUSE", "RESET"}

AllKeys == KEYS \cup {"OTHER"}

(* ------------------------------- state --------------------------------- *)

VARIABLES
    skier,            \* the Skier: state, direction, speed, position, animation
    gameState,        \* Game.state
    currentScore,     \* Game.currentScore
    pendingFrames,    \* the number of run callbacks requestAnimationFrame holds
    speedAtJumpStart, \* history: while jumping, the speed when the jump started
    firedAt,          \* history: the score at which the speed increase last ran, or -1
    downhillRun,      \* history: nothing but frames of skiing straight down so far
    last              \* history: which handler ran last

vars == <<skier, gameState, currentScore, pendingFrames, speedAtJumpStart, firedAt,
          downhillRun, last>>

(* ------------------------------ the skier ------------------------------ *)

Coord(w, d) == [whole |-> w, diag |-> d]

NewSkier ==
    [state |-> STATE_SKIING,
     direction |-> DIRECTION_DOWN,
     speed |-> STARTING_SPEED,
     position |-> [x |-> Coord(0, 0), y |-> Coord(0, 0)],
     curAnimation |-> NONE,
     curAnimationFrame |-> 0]

isCrashed(sk) == sk.state = STATE_CRASHED

isSkiing(sk) == sk.state = STATE_SKIING

isJumping(sk) == sk.state = STATE_JUMPING

isDead(sk) == sk.state = STATE_DEAD

isDownwardsFacing(sk) ==
    sk.direction \in {DIRECTION_DOWN, DIRECTION_LEFT_DOWN, DIRECTION_RIGHT_DOWN}

isMovingDownwards(sk) == isDownwardsFacing(sk) /\ sk.speed > 0

setDirection(sk, direction) == [sk EXCEPT !.direction = direction]

moveSkierLeft(sk) ==
    [sk EXCEPT !.position.x.whole = @ - STARTING_SPEED]

moveSkierLeftDown(sk) ==
    [sk EXCEPT !.position.x.diag = @ - sk.speed,
               !.position.y.diag = @ + sk.speed]

moveSkierDown(sk) ==
    [sk EXCEPT !.position.y.whole = @ + sk.speed]

moveSkierRightDown(sk) ==
    [sk EXCEPT !.position.x.diag = @ + sk.speed,
               !.position.y.diag = @ + sk.speed]

moveSkierRight(sk) ==
    [sk EXCEPT !.position.x.whole = @ + STARTING_SPEED]

moveSkierUp(sk) ==
    [sk EXCEPT !.position.y.whole = @ - STARTING_SPEED]

move(sk) ==
    CASE sk.direction = DIRECTION_LEFT_DOWN -> moveSkierLeftDown(sk)
      [] sk.direction = DIRECTION_DOWN -> moveSkierDown(sk)
      [] sk.direction = DIRECTION_RIGHT_DOWN -> moveSkierRightDown(sk)
      [] OTHER -> sk

\* a crash that forgets to stop the skier
crashKeepsSpeed(sk) == [sk EXCEPT !.state = STATE_CRASHED]

crash(sk) == [sk EXCEPT !.state = STATE_CRASHED, !.speed = 0]

recoverKeepsSpeed(sk, newDirection) ==
    setDirection([sk EXCEPT !.state = STATE_SKIING], newDirection)

recoverFromCrash(sk, newDirection) ==
    setDirection([sk EXCEPT !.state = STATE_SKIING, !.speed = STARTING_SPEED],
                 newDirection)

landFromJump(sk, currentSpeed) ==
    [sk EXCEPT !.state = STATE_SKIING, !.speed = currentSpeed]

die(sk) == [sk EXCEPT !.state = STATE_DEAD, !.speed = 0]

\* Entity.setAnimation: the animation of that name, from its first image
setAnimation(sk, name) ==
    [sk EXCEPT !.curAnimation = name, !.curAnimationFrame = 0]

jumpEvenCrashed(sk) ==
    setAnimation([sk EXCEPT !.state = STATE_JUMPING], STATE_JUMPING)

jump(sk) ==
    IF isCrashed(sk) THEN sk
    ELSE setAnimation([sk EXCEPT !.state = STATE_JUMPING], STATE_JUMPING)

\* the callback setupAnimations gives the jump animation: it reads this.speed
\* when it is called
jumpingCallback(sk) == landFromJump(sk, sk.speed)

\* Entity.finishAnimation of an animation that does not loop
finishAnimation(sk) ==
    jumpingCallback([sk EXCEPT !.curAnimation = NONE])

\* Entity.nextAnimationFrame
nextAnimationFrame(sk) ==
    IF sk.curAnimationFrame + 1 >= IMAGES_JUMPING
    THEN finishAnimation([sk EXCEPT !.curAnimationFrame = @ + 1])
    ELSE [sk EXCEPT !.curAnimationFrame = @ + 1]

\* Entity.animate: elapsed tells whether the clock has passed the image's time
animate(sk, elapsed) ==
    IF sk.curAnimation = NONE THEN sk
    ELSE IF elapsed THEN nextAnimationFrame(sk)
    ELSE sk

interactWhileSkiing(sk, obstacle) ==
    IF obstacle = JUMP_RAMP THEN jump(sk) ELSE crash(sk)

\* a jump that clears rocks only, so that a ramp met in the air crashes the skier
interactWhileJumpingRocksOnly(sk, imageName) ==
    IF imageName \notin {ROCK1, ROCK2} THEN crash(sk) ELSE sk

interactWhileJumping(sk, imageName) ==
    IF imageName \notin JUMPABLE_OBSTACLES THEN crash(sk) ELSE sk

interactWithObstacle(sk, obstacle) ==
    LET s1 == IF sk.state = STATE_SKIING THEN interactWhileSkiing(sk, obstacle) ELSE sk
    IN  IF s1.state = STATE_JUMPING THEN interactWhileJumping(s1, obstacle) ELSE s1

\* an obstacle of the obstacle manager: its image name, whether getBounds finds
\* its image, and whether its bounds intersect the skier's
Obstacle(imageName, bounds, intersects) ==
    [imageName |-> imageName, bounds |-> bounds, intersects |-> intersects]

ObstacleLists ==
    UNION {[1..n -> {Obstacle(name, b, i) :
                       name \in ObstacleNames, b \in BOOLEAN, i \in BOOLEAN}]
             : n \in 0..MaxObstacles}

\* the find of checkIfHitObstacle from obstacle i on: the index of the obstacle it
\* returns (0: undefined) and obstacleName as its callback leaves it
RECURSIVE findInteraction(_, _, _)
findInteraction(obstacles, i, obstacleName) ==
    IF i > Len(obstacles)
    THEN [interaction |-> 0, obstacleName |-> obstacleName]
    ELSE IF ~obstacles[i].bounds
    THEN findInteraction(obstacles, i + 1, obstacleName)
    ELSE IF obstacles[i].intersects
    THEN [interaction |-> i, obstacleName |-> obstacles[i].imageName]
    ELSE findInteraction(obstacles, i + 1, obstacles[i].imageName)

\* the obstacle name checkIfHitObstacle passes on to interactWithObstacle, or NONE
foundIn(obstacles) ==
    LET r == findInteraction(obstacles, 1, NONE)
    IN  IF r.interaction # 0 /\ r.obstacleName # NONE THEN r.obstacleName ELSE NONE

\* what a collision search can find
Founds == {foundIn(obstacles) : obstacles \in ObstacleLists}

\* a collision check that goes on without the skier's bounds
checkIfHitObstacleBlind(sk, bounds, found) ==
    IF found # NONE THEN interactWithObstacle(sk, found) ELSE sk

\* bounds: whether getBounds finds the skier's image; found: the image name of the
\* first obstacle of the obstacle manager that intersects the skier, or NONE
checkIfHitObstacle(sk, bounds, found) ==
    IF ~bounds THEN sk
    ELSE IF found # NONE THEN interactWithObstacle(sk, found)
    ELSE sk

increaseSpeedIfThresholdMet(sk, score) ==
    IF score % SPEED_INCREASE_THRESHOLD = 0
    THEN [sk EXCEPT !.speed = @ + 1]
    ELSE sk

\* what a frame takes from outside the skier: the clock (elapsed), the image store
\* (bounds), what each collision search finds (found1 while skiing, found2 while
\* jumping) and whether the rhino catches the skier (caught)
Input(elapsed, bounds, found1, found2, caught) ==
    [elapsed |-> elapsed, bounds |-> bounds, found1 |-> found1, found2 |-> found2,
     caught |-> caught]

\* the inputs a frame of skier sk can tell apart: a search that does not run, or
\* runs without the skier's bounds, finds nothing; no clock without an animation
InputsOf(sk) ==
    LET catches == IF isDead(sk) THEN {FALSE} ELSE BOOLEAN
        founds == Founds
    IN  CASE isSkiing(sk) ->
               {Input(FALSE, FALSE, NONE, NONE, c) : c \in catches}
               \cup {Input(FALSE, TRUE, f, NONE, c) :
                       f \in founds \ {JUMP_RAMP}, c \in catches}
               \cup {Input(e, TRUE, JUMP_RAMP, f, c) :
                       e \in BOOLEAN, f \in founds, c \in catches}
          [] isJumping(sk) ->
               {Input(e, FALSE, NONE, NONE, c) : e \in BOOLEAN, c \in catches}
               \cup {Input(e, TRUE, NONE, f, c) :
                       e \in BOOLEAN, f \in founds, c \in catches}
          [] OTHER -> {Input(FALSE, TRUE, NONE, NONE, c) : c \in catches}

\* Skier.update, its skiing block
updateSkiing(sk, in) ==
    IF isSkiing(sk) THEN checkIfHitObstacle(move(sk), in.bounds, in.found1) ELSE sk

\* a jumping block that checks for collisions before it animates
updateJumpingCheckFirst(sk, in) ==
    IF isJumping(sk)
    THEN animate(checkIfHitObstacle(move(sk), in.bounds, in.found2), in.elapsed)
    ELSE sk

\* Skier.update, its jumping block
updateJumping(sk, in) ==
    IF isJumping(sk)
    THEN checkIfHitObstacle(animate(move(sk), in.elapsed), in.bounds, in.found2)
    ELSE sk

update(sk, in, score) ==
    increaseSpeedIfThresholdMet(updateJumping(updateSkiing(sk, in), in), score)

turnLeftPastTheEnd(sk) ==
    LET s1 == IF isCrashed(sk) THEN recoverFromCrash(sk, DIRECTION_LEFT) ELSE sk
    IN  IF s1.state # STATE_JUMPING
        THEN setDirection(s1, s1.direction - 1)
        ELSE s1

turnLeft(sk) ==
    LET s1 == IF isCrashed(sk) THEN recoverFromCrash(sk, DIRECTION_LEFT) ELSE sk
    IN  IF s1.state # STATE_JUMPING
        THEN IF s1.direction = DIRECTION_LEFT
             THEN moveSkierLeft(s1)
             ELSE setDirection(s1, s1.direction - 1)
        ELSE s1

\* a turn that only recovers a crashed skier
turnRightRecoverOnly(sk) ==
    IF isCrashed(sk) THEN recoverFromCrash(sk, DIRECTION_RIGHT)
    ELSE IF sk.state # STATE_JUMPING
    THEN IF sk.direction = DIRECTION_RIGHT
         THEN moveSkierRight(sk)
         ELSE setDirection(sk, sk.direction + 1)
    ELSE sk

turnRight(sk) ==
    LET s1 == IF isCrashed(sk) THEN recoverFromCrash(sk, DIRECTION_RIGHT) ELSE sk
    IN  IF s1.state # STATE_JUMPING
        THEN IF s1.direction = DIRECTION_RIGHT
             THEN moveSkierRight(s1)
             ELSE setDirection(s1, s1.direction + 1)
        ELSE s1

turnUp(sk) ==
    IF isCrashed(sk) THEN sk
    ELSE IF sk.direction = DIRECTION_LEFT \/ sk.direction = DIRECTION_RIGHT
    THEN moveSkierUp(sk)
    ELSE sk

turnDown(sk) ==
    IF isCrashed(sk) THEN sk ELSE setDirection(sk, DIRECTION_DOWN)

skierHandleInputEvenDead(sk, inputKey) ==
    CASE inputKey = "SPACE" -> [skier |-> jump(sk), handled |-> TRUE]
      [] inputKey = "LEFT" -> [skier |-> turnLeft(sk), handled |-> TRUE]
      [] inputKey = "RIGHT" -> [skier |-> turnRight(sk), handled |-> TRUE]
      [] inputKey = "UP" -> [skier |-> turnUp(sk), handled |-> TRUE]
      [] inputKey = "DOWN" -> [skier |-> turnDown(sk), handled |-> TRUE]
      [] OTHER -> [skier |-> sk, handled |-> FALSE]

\* a handler that reports a key as handled only when the key changed the skier
skierHandleInputEffectOnly(sk, inputKey) ==
    LET r == skierHandleInputEvenDead(sk, inputKey)
    IN  IF isDead(sk) THEN [skier |-> sk, handled |-> FALSE]
        ELSE [skier |-> r.skier, handled |-> r.skier # sk]

\* Skier.handleInput: the skier after the key, and whether the key was handled
skierHandleInput(sk, inputKey) ==
    IF isDead(sk) THEN [skier |-> sk, handled |-> FALSE]
    ELSE CASE inputKey = "SPACE" -> [skier |-> jump(sk), handled |-> TRUE]
           [] inputKey = "LEFT" -> [skier |-> turnLeft(sk), handled |-> TRUE]
           [] inputKey = "RIGHT" -> [skier |-> turnRight(sk), handled |-> TRUE]
           [] inputKey = "UP" -> [skier |-> turnUp(sk), handled |-> TRUE]
           [] inputKey = "DOWN" -> [skier |-> turnDown(sk), handled |-> TRUE]
           [] OTHER -> [skier |-> sk, handled |-> FALSE]

\* Rhino.update, as far as the skier goes: the rhino kills a skier it catches
rhinoUpdate(sk, caught) ==
    IF caught /\ ~isDead(sk) THEN die(sk) ELSE sk

(* ------------------------------- the game ------------------------------ *)

\* the Game's fields, and the callbacks the browser holds for it
Origin == [x |-> Coord(0, 0), y |-> Coord(0, 0)]

World == [skier |-> [skier EXCEPT !.position = Origin], state |-> gameState,
          currentScore |-> currentScore, pendingFrames |-> pendingFrames]

NewWorld == [skier |-> NewSkier, state |-> STATE_PLAYING, currentScore |-> 0,
             pendingFrames |-> 1]

isPlaying(g) == g.state = STATE_PLAYING

isPaused(g) == g.state = STATE_PAUSED

\* a frame that lets the rhino act before the skier
updateGameWindowRhinoFirst(g, in) ==
    [g EXCEPT !.skier = update(rhinoUpdate(g.skier, in.caught), in, g.currentScore)]

updateGameWindow(g, in) ==
    [g EXCEPT !.skier = rhinoUpdate(update(g.skier, in, g.currentScore), in.caught)]

updateCurrentScore(g) ==
    IF isMovingDownwards(g.skier)
    THEN [g EXCEPT !.currentScore = @ + 1]
    ELSE g

runWhateverTheState(g, in) ==
    [updateCurrentScore(updateGameWindow(g, in)) EXCEPT !.pendingFrames = @ + 1]

\* Game.run: while playing, the frame's updates and one more callback requested
run(g, in) ==
    IF isPlaying(g)
    THEN [updateCurrentScore(updateGameWindow(g, in)) EXCEPT !.pendingFrames = @ + 1]
    ELSE g

pauseOrResume(g, in) ==
    IF isPlaying(g) THEN [g EXCEPT !.state = STATE_PAUSED]
    ELSE IF isPaused(g) THEN run([g EXCEPT !.state = STATE_PLAYING], in)
    ELSE g

\* a reset that starts a new game but keeps the score
resetKeepsScore(g) == [NewWorld EXCEPT !.currentScore = g.currentScore]

\* location.reload(): the page, and with it the game, starts again
reset(g) == NewWorld

\* Game.handleInput: the game after the key, and whether the key was handled
gameHandleInput(g, inputKey, in) ==
    CASE inputKey = "PAUSE" -> [game |-> pauseOrResume(g, in), handled |-> TRUE]
      [] inputKey = "RESET" -> [game |-> reset(g), handled |-> TRUE]
      [] OTHER -> [game |-> g, handled |-> FALSE]

\* Game.handleKeyDown: the game after the key event, and whether preventDefault ran
handleKeyDown(g, key, in) ==
    LET byGame == gameHandleInput(g, key, in)
        g1 == byGame.game
        bySkier == IF isPlaying(g1)
                   THEN skierHandleInput(g1.skier, key)
                   ELSE [skier |-> g1.skier, handled |-> FALSE]
    IN  [game |-> [g1 EXCEPT !.skier = bySkier.skier],
         prevented |-> byGame.handled \/ bySkier.handled]

(* ------------------------------- history ------------------------------- *)

\* the fields of the skier the interaction rules are about
View(sk) == [state |-> sk.state, speed |-> sk.speed, direction |-> sk.direction]

\* one call of interactWithObstacle: the skier before it, the obstacle, the skier after
Dispatch(sk, obstacle) ==
    [pre |-> View(sk), obstacle |-> obstacle,
     post |-> View(interactWithObstacle(sk, obstacle))]

\* what Skier.update(sk, in, ...) did: the calls of interactWithObstacle it made,
\* the speed at the last Skiing-to-Jumping transition (jumpStart before it), and
\* whether it called checkIfHitObstacle with no image for the skier (blind)
updateTrace(sk, in, jumpStart) ==
    LET skiing == isSkiing(sk)
        a == move(sk)
        hit1 == skiing /\ in.bounds /\ in.found1 # NONE
        s1 == updateSkiing(sk, in)
        start1 == IF skiing /\ isJumping(s1) THEN a.speed ELSE jumpStart
        jumping == isJumping(s1)
        b == animate(move(s1), in.elapsed)
        landed == jumping /\ isSkiing(b)
        hit2 == jumping /\ in.bounds /\ in.found2 # NONE
        s2 == updateJumping(s1, in)
        start2 == IF landed /\ isJumping(s2) THEN b.speed ELSE start1
    IN  [dispatches |-> (IF hit1 THEN <<Dispatch(a, in.found1)>> ELSE <<>>)
                        \o (IF hit2 THEN <<Dispatch(b, in.found2)>> ELSE <<>>),
         jumpStart |-> start2,
         blind |-> (skiing \/ jumping) /\ ~in.bounds]

NoUpdate(jumpStart) ==
    [dispatches |-> <<>>, jumpStart |-> jumpStart, blind |-> FALSE]

\* what run(g, in) did
runTrace(g, in, jumpStart) ==
    IF isPlaying(g) THEN updateTrace(g.skier, in, jumpStart) ELSE NoUpdate(jumpStart)

\* which handler ran last: "init" (none yet), "frame" or "key", the key, the
\* states in which it called interactWithObstacle, the state of the skier when it
\* began, whether it called event.preventDefault(), and whether it checked for
\* collisions with no image for the skier
History(op, key, t, from, prevented) ==
    [op |-> op, key |-> key,
     collided |-> {t.dispatches[i].pre.state : i \in DOMAIN t.dispatches},
     from |-> from, prevented |-> prevented, blind |-> t.blind]

\* the animation is read while the skier jumps only, and jump() starts it anew:
\* the model keeps it for a jumping skier only
Settled(sk) ==
    IF isJumping(sk) THEN sk
    ELSE [sk EXCEPT !.curAnimation = NONE, !.curAnimationFrame = 0]

\* the history of the jump's starting speed, kept while the skier jumps
JumpStart(sk, speed) == IF isJumping(sk) THEN speed ELSE 0

\* the history of the speed increase: run(g, ...) calls it with g's score while playing
FiredAt(g) ==
    IF isPlaying(g) /\ g.currentScore % SPEED_INCREASE_THRESHOLD = 0
    THEN g.currentScore
    ELSE firedAt

SkiingDown(sk) == isSkiing(sk) /\ sk.direction = DIRECTION_DOWN

(* ------------------------------- actions ------------------------------- *)

WithinBounds(g) ==
    /\ g.currentScore <= MaxScore
    /\ g.skier.speed <= MaxSpeed
    /\ g.pendingFrames <= MaxPending

Install(g) ==
    /\ WithinBounds(g)
    /\ skier' = Settled(g.skier)
    /\ gameState' = g.state
    /\ currentScore' = g.currentScore
    /\ pendingFrames' = g.pendingFrames

Init ==
    /\ skier = NewSkier
    /\ gameState = STATE_PLAYING
    /\ currentScore = 0
    /\ pendingFrames = 1
    /\ speedAtJumpStart = 0
    /\ firedAt = -1
    /\ downhillRun = TRUE
    /\ last = History("init", NONE, NoUpdate(0), NONE, FALSE)

\* the browser calls a scheduled run
FrameCallback ==
    /\ pendingFrames > 0
    /\ \E in \in InputsOf(skier) :
         LET g == [World EXCEPT !.pendingFrames = @ - 1]
             t == runTrace(g, in, speedAtJumpStart)
             g2 == run(g, in)
         IN  /\ Install(g2)
             /\ speedAtJumpStart' = JumpStart(g2.skier, t.jumpStart)
             /\ firedAt' = FiredAt(g)
             /\ downhillRun' = (downhillRun /\ SkiingDown(g2.skier))
             /\ last' = History("frame", NONE, t, skier.state, FALSE)

\* the browser delivers a keydown event; in is what the frame takes that
\* pauseOrResume runs when the key resumes the game
KeyEvent(key, in) ==
    LET g == World
        resumed == key = "PAUSE" /\ isPaused(g)
        t == IF resumed
             THEN runTrace([g EXCEPT !.state = STATE_PLAYING], in, speedAtJumpStart)
             ELSE NoUpdate(speedAtJumpStart)
        g1 == gameHandleInput(g, key, in).game
        g2 == handleKeyDown(g, key, in).game
    IN  /\ Install(g2)
        /\ speedAtJumpStart' =
             JumpStart(g2.skier,
                       IF isSkiing(g1.skier) /\ isJumping(g2.skier)
                       THEN g1.skier.speed ELSE t.jumpStart)
        /\ firedAt' = IF key = "RESET" THEN -1
                      ELSE IF resumed THEN FiredAt([g EXCEPT !.state = STATE_PLAYING])
                      ELSE firedAt
        /\ downhillRun' = IF key = "RESET" THEN TRUE
                          ELSE downhillRun /\ key # "PAUSE" /\ SkiingDown(g2.skier)
        /\ last' = History("key", key, t, skier.state,
                            handleKeyDown(g, key, in).prevented)

NoInput ==
    [elapsed |-> FALSE, bounds |-> TRUE, found1 |-> NONE, found2 |-> NONE,
     caught |-> FALSE]

KeyDown ==
    \E key \in AllKeys :
        IF key = "PAUSE" /\ gameState = STATE_PAUSED
        THEN \E in \in InputsOf(skier) : KeyEvent(key, in)
        ELSE KeyEvent(key, NoInput)

Next == FrameCallback \/ KeyDown

Spec == Init /\ [][Next]_vars

(* ------------------------------- claims -------------------------------- *)

\* the step runs the frame's updates: a frame callback while playing, or the
\* pause key while paused (pauseOrResume calls run)
Updated ==
    \/ last'.op = "frame" /\ gameState = STATE_PLAYING
    \/ last'.key = "PAUSE" /\ gameState = STATE_PAUSED

Horizontal(sk) == sk.direction \in {DIRECTION_LEFT, DIRECTION_RIGHT}

\* the displacement of a handler that moves the skier by dx, dy (each a Coord)
Moved(dx, dy) == [x |-> dx, y |-> dy]

\* the calls of interactWithObstacle a frame of the current skier can make (the
\* rhino acts after Skier.update and has no part in them)
Collisions ==
    UNION {{t.dispatches[i] : i \in DOMAIN t.dispatches}
             : t \in {updateTrace(World.skier, in, speedAtJumpStart)
                        : in \in {i \in InputsOf(skier) : ~i.caught}}}

\* C1: the speed is 0 whenever the skier is crashed or dead.
C1_StoppedWhenCrashedOrDead ==
    (isCrashed(skier) \/ isDead(skier)) => skier.speed = 0

\* C2: a frame that the skier begins and ends crashed, or begins and ends facing
\* fully left or right, leaves the score as it was.
C2_NoScoreWhileCrashedOrHorizontal ==
    [][(Updated /\ ((isCrashed(skier) /\ isCrashed(skier'))
                    \/ (Horizontal(skier) /\ Horizontal(skier'))))
       => currentScore' = currentScore]_vars

\* C3: a frame that begins with the skier skiing and facing down at speed s moves
\* the skier by exactly s in y and not at all in x, whatever it collides with.
C3_DownMovesBySpeed ==
    [][(Updated /\ isSkiing(skier) /\ skier.direction = DIRECTION_DOWN)
       => skier'.position = Moved(Coord(0, 0), Coord(skier.speed, 0))]_vars

\* C4: a frame that begins with the skier facing left-down or right-down at speed s
\* moves the skier by s/k in y and by s/k in x, to the left for left-down and to
\* the right for right-down.
C4_DiagonalMovesBySpeedOverK ==
    [][(Updated /\ skier.direction \in {DIRECTION_LEFT_DOWN, DIRECTION_RIGHT_DOWN})
       => skier'.position =
            Moved(Coord(0, IF skier.direction = DIRECTION_LEFT_DOWN
                           THEN -skier.speed ELSE skier.speed),
                  Coord(0, skier.speed))]_vars

\* C5: skiing straight down from the start, the speed is the starting speed while
\* the score is below the threshold and the starting speed plus one from there
\* until the score reaches twice the threshold.
C5_SpeedSteps ==
    downhillRun =>
        /\ currentScore < SPEED_INCREASE_THRESHOLD => skier.speed = STARTING_SPEED
        /\ (currentScore >= SPEED_INCREASE_THRESHOLD
            /\ currentScore < 2 * SPEED_INCREASE_THRESHOLD)
           => skier.speed = STARTING_SPEED + 1

\* C6: the speed increase runs at most once for a score that is a multiple of the
\* threshold: no frame runs it again for the score it last ran for.
C6_IncreaseOncePerScore ==
    [][(Updated /\ currentScore % SPEED_INCREASE_THRESHOLD = 0)
       => firedAt # currentScore]_vars

\* C7: a frame in which the jump animation completes and the skier is skiing again
\* ends with the speed the skier had when the jump started (plus the increase of
\* this very frame, when its score is a multiple of the threshold).
C7_LandingRestoresJumpStartSpeed ==
    [][(Updated /\ isJumping(skier) /\ isSkiing(skier'))
       => skier'.speed = speedAtJumpStart
                         + (IF currentScore % SPEED_INCREASE_THRESHOLD = 0 THEN 1 ELSE 0)]_vars

\* C8: while the skier is jumping no key changes the direction.
C8_NoTurnWhileJumping ==
    [][(last'.op = "key" /\ last'.key # "RESET" /\ isJumping(skier))
       => skier'.direction = skier.direction]_vars

\* C9: a collision dispatched while skiing crashes the skier and stops it, whatever
\* its speed and direction were, unless the obstacle is a ramp, which makes it jump.
C9_CollisionWhileSkiing ==
    \A d \in Collisions :
        d.pre.state = STATE_SKIING =>
            IF d.obstacle = JUMP_RAMP
            THEN d.post.state = STATE_JUMPING
            ELSE d.post.state = STATE_CRASHED /\ d.post.speed = 0

\* a frame has just crashed a skier that ran into an obstacle while skiing
C9_Witness ==
    /\ last.op = "frame"
    /\ last.collided = {STATE_SKIING}
    /\ isCrashed(skier) /\ skier.speed = 0

\* C10: a collision dispatched while jumping with a rock or a ramp leaves state,
\* speed and direction as they were; with any obstacle that is not jumpable it
\* crashes the skier and stops it.
C10_CollisionWhileJumping ==
    \A d \in Collisions :
        d.pre.state = STATE_JUMPING =>
            /\ d.obstacle \in {ROCK1, ROCK2, JUMP_RAMP} => d.post = d.pre
            /\ d.obstacle \notin JUMPABLE_OBSTACLES
               => d.post.state = STATE_CRASHED /\ d.post.speed = 0

\* a frame has just crashed a skier that ran into an obstacle in the middle of a jump
C10_Witness ==
    /\ last.op = "frame"
    /\ last.collided = {STATE_JUMPING}
    /\ isCrashed(skier) /\ skier.speed = 0

\* the keys Skier.handleInput has a case for
SKIER_KEYS == {"SPACE", "LEFT", "RIGHT", "UP", "DOWN"}

\* the step is the handling of a keydown event for one of the keys
Pressed(keys) == last'.op = "key" /\ last'.key \in keys

\* C11: a turn-left (turn-right) key delivered to a crashed skier leaves it skiing,
\* facing fully left (right), at the starting speed, in that one handler, whatever
\* its direction and speed were.
C11_TurnRecoversFromCrash ==
    [][(Pressed({"LEFT", "RIGHT"}) /\ gameState = STATE_PLAYING /\ isCrashed(skier))
       => /\ isSkiing(skier')
          /\ skier'.direction = (IF last'.key = "LEFT" THEN DIRECTION_LEFT
                                 ELSE DIRECTION_RIGHT)
          /\ skier'.speed = STARTING_SPEED]_vars

\* the turn-left key has just put a crashed skier back on its skis
C11_Witness ==
    /\ last.op = "key" /\ last.key = "LEFT"
    /\ last.from = STATE_CRASHED
    /\ isSkiing(skier) /\ skier.direction = DIRECTION_LEFT
    /\ skier.speed = STARTING_SPEED

\* the step leaves the skier's state, speed and direction as they were and does
\* not move it
Untouched == View(skier') = View(skier) /\ skier'.position = Origin

\* C12: the pause key, whether it pauses or resumes, leaves the skier's position,
\* direction, speed and state and the score as they were, so that a pause followed
\* by a resume with no frame callback in between changes none of them.
C12_PauseResumeChangesNothing ==
    [][Pressed({"PAUSE"}) => (Untouched /\ currentScore' = currentScore)]_vars

\* C13: a step that leaves the game paused (the key that pauses it, and every key
\* and frame callback while it is paused) updates neither the skier nor the score
\* and dispatches no collision; a frame callback that fires while the game is
\* paused requests no other frame, and a key pressed while it is paused requests
\* none and is not consumed.
C13_PausedIsStationary ==
    [][gameState' = STATE_PAUSED
       => /\ skier' = World.skier
          /\ currentScore' = currentScore
          /\ last'.collided = {}
          /\ last'.op = "frame" => pendingFrames' = pendingFrames - 1
          /\ (last'.op = "key" /\ gameState = STATE_PAUSED)
             => (pendingFrames' = pendingFrames /\ ~last'.prevented)]_vars

\* the callback requested before the pause has fired while the game was paused,
\* and no other is pending
C13_Witness ==
    /\ last.op = "frame"
    /\ gameState = STATE_PAUSED
    /\ pendingFrames = 0

\* C14: a frame callback that finds the skier dead updates neither the skier nor
\* the score and requests no other frame.
C14_DeadStopsFrames ==
    [][(last'.op = "frame" /\ isDead(skier))
       => /\ skier' = World.skier
          /\ currentScore' = currentScore
          /\ pendingFrames' = pendingFrames - 1]_vars

\* C15: a dead skier stays dead, where it is and facing as it was, through every
\* frame and every key short of the reset of the game; handleInput returns false
\* for every key and changes no field of a dead skier, so that no key is consumed
\* on its behalf.
C15_DeadIsAbsorbing ==
    [][(isDead(skier) /\ ~Pressed({"RESET"}))
       => /\ isDead(skier')
          /\ skier'.direction = skier.direction
          /\ skier'.position = Origin
          /\ \A key \in AllKeys :
                skierHandleInput(World.skier, key)
                    = [skier |-> World.skier, handled |-> FALSE]
          /\ Pressed(AllKeys \ {"PAUSE"})
             => (skier' = World.skier /\ ~last'.prevented)]_vars

\* a turn key has been pressed for a skier that died at least one frame before
C15_Witness ==
    /\ last.op = "key" /\ last.key = "LEFT"
    /\ last.from = STATE_DEAD
    /\ gameState = STATE_PLAYING
    /\ isDead(skier) /\ skier.speed > 0

\* C16: one update of the skier calls interactWithObstacle at most once (the two
\* blocks of update call it in different states, so the states it was called in
\* count the calls).
C16_OneInteractionPerFrame == Cardinality(last.collided) <= 1

\* the five directions
Directions == {DIRECTION_LEFT, DIRECTION_LEFT_DOWN, DIRECTION_DOWN,
               DIRECTION_RIGHT_DOWN, DIRECTION_RIGHT}

\* C17: the direction is one of the five at all times; a turn key delivered to a
\* skiing skier turns it one step toward the side of the key and leaves it where
\* it is, unless it faces that side fully already: then the direction stays and
\* the skier is moved by the starting speed along x toward that side.
C17_DirectionStaysOnTheFive ==
    /\ [](skier.direction \in Directions)
    /\ [][(Pressed({"LEFT", "RIGHT"}) /\ gameState = STATE_PLAYING /\ isSkiing(skier))
          => LET side == IF last'.key = "LEFT" THEN DIRECTION_LEFT ELSE DIRECTION_RIGHT
                 step == IF last'.key = "LEFT" THEN -1 ELSE 1
             IN  /\ isSkiing(skier')
                 /\ IF skier.direction = side
                    THEN /\ skier'.direction = side
                         /\ skier'.position =
                              Moved(Coord(step * STARTING_SPEED, 0), Coord(0, 0))
                    ELSE /\ skier'.direction = skier.direction + step
                         /\ skier'.position = Origin]_vars

\* the turn-left key has just moved aside a skiing skier that faced fully left
C17_Witness ==
    /\ last.op = "key" /\ last.key = "LEFT"
    /\ last.from = STATE_SKIING
    /\ skier.direction = DIRECTION_LEFT
    /\ skier.position = Moved(Coord(-STARTING_SPEED, 0), Coord(0, 0))
    /\ skier.speed > STARTING_SPEED

\* C18: for a skier that is not dead handleInput returns true for each of the five
\* keys it has a case for, whatever the state and whether or not the key has an
\* effect, and returns false for every other key and leaves the skier as it was.
C18_HandledKeys ==
    ~isDead(skier) =>
        \A key \in AllKeys :
            LET r == skierHandleInput(World.skier, key)
            IN  /\ r.handled = (key \in SKIER_KEYS)
                /\ key \notin SKIER_KEYS => r.skier = World.skier

\* the turn-up key, which does nothing to a crashed skier, has been delivered to
\* one and consumed
C18_Witness ==
    /\ last.op = "key" /\ last.key = "UP"
    /\ last.from = STATE_CRASHED
    /\ isCrashed(skier)
    /\ last.prevented

\* the keys Game.handleInput has a case for
GAME_KEYS == {"PAUSE", "RESET"}

\* C19: a key event is consumed by the game when it is the pause or the reset key;
\* any other key goes to the skier's handler when the game is playing, and has
\* exactly that handler's effect; while the game is paused no key changes a field
\* of the skier (the reset key apart, which starts a new game); the default action
\* of the key is prevented exactly when the game consumed it or the skier's
\* handler did.
C19_KeyRouting ==
    [][last'.op = "key"
       => LET key == last'.key
              byGame == key \in GAME_KEYS
              bySkier == /\ gameState = STATE_PLAYING
                         /\ ~isDead(skier)
                         /\ key \in SKIER_KEYS
          IN  /\ last'.prevented = (byGame \/ bySkier)
              /\ (key # "RESET" /\ gameState = STATE_PAUSED) => skier' = World.skier
              /\ (~byGame /\ gameState = STATE_PLAYING)
                 => skier' = Settled(skierHandleInput(World.skier, key).skier)
              /\ ~byGame => (gameState' = gameState /\ currentScore' = currentScore)]_vars

\* C20: the reset key, pressed in any state of the game and of the skier, leaves
\* the initial world: the skier skiing, facing down, at the starting speed, at the
\* start position, no animation under way, the score 0, the game playing and one
\* frame callback pending.
C20_ResetStartsAnew ==
    [][Pressed({"RESET"})
       => /\ skier' = NewSkier
          /\ currentScore' = 0
          /\ gameState' = STATE_PLAYING
          /\ pendingFrames' = 1]_vars

\* the reset key has just replaced a game whose skier was dead by the initial
\* world
C20_Witness ==
    /\ last.op = "key" /\ last.key = "RESET"
    /\ last.from = STATE_DEAD
    /\ skier = NewSkier
    /\ currentScore = 0
    /\ gameState = STATE_PLAYING

\* C21: in every frame the skier is updated first, with the score the frame began
\* with, the rhino acts on the skier as that update left it, and the score is
\* updated last, from the skier as both left it: a skier the rhino kills in a frame
\* has made that frame's move, ends the frame with speed 0 whatever the speed
\* increase did, and earns no point for it.
C21_SkierThenRhinoThenScore ==
    [][Updated
       => /\ \E in \in InputsOf(skier) :
                LET afterSkier == update(World.skier, in, currentScore)
                    afterRhino == rhinoUpdate(afterSkier, in.caught)
                IN  /\ skier' = Settled(afterRhino)
                    /\ currentScore' = currentScore
                           + (IF isMovingDownwards(afterRhino) THEN 1 ELSE 0)
          /\ (~isDead(skier) /\ isDead(skier'))
             => /\ skier'.speed = 0
                /\ currentScore' = currentScore
                /\ (isSkiing(skier) /\ skier.direction = DIRECTION_DOWN)
                   => skier'.position.y.whole >= skier.speed]_vars

\* the rhino has caught, in the first frame, a skier that had made the move of
\* that frame
C21_Witness ==
    /\ last.op = "frame"
    /\ last.from = STATE_SKIING
    /\ isDead(skier) /\ skier.speed = 0
    /\ skier.position = Moved(Coord(0, 0), Coord(STARTING_SPEED, 0))
    /\ currentScore = 0

\* C22: a crashed skier leaves the crashed state by a turn-left or turn-right key
\* only, to skiing, or by the rhino in a frame, to dead (or when the game is
\* reset); every other key and every frame leave its state, its direction and its
\* position as they were.
C22_WaysOutOfCrashed ==
    [][isCrashed(skier)
       => /\ skier'.state \in {STATE_CRASHED, STATE_SKIING, STATE_DEAD}
          /\ isSkiing(skier') => Pressed({"LEFT", "RIGHT", "RESET"})
          /\ isDead(skier') => Updated
          /\ ~Pressed({"LEFT", "RIGHT", "RESET"})
             => /\ skier'.direction = skier.direction
                /\ skier'.position = Origin
                /\ ~isDead(skier') => isCrashed(skier')]_vars

\* the jump key has been delivered to a crashed skier, which is still crashed
C22_Witness ==
    /\ last.op = "key" /\ last.key = "SPACE"
    /\ last.from = STATE_CRASHED
    /\ gameState = STATE_PLAYING
    /\ isCrashed(skier)

\* C23: the handler of a key meant for the skier changes neither the position nor
\* the direction, the state or the speed of the skier: these change in frames only.
C23_KeysChangeNothingBetweenFrames ==
    [][Pressed(SKIER_KEYS) => Untouched]_vars

\* whatever the obstacles, the one a collision search reports has bounds and
\* intersects the skier, and its name is the name passed on
FoundHasBounds ==
    \A obstacles \in ObstacleLists :
        LET r == findInteraction(obstacles, 1, NONE)
        IN  IF r.interaction = 0
            THEN foundIn(obstacles) = NONE
            ELSE /\ obstacles[r.interaction].bounds
                 /\ obstacles[r.interaction].intersects
                 /\ foundIn(obstacles) = obstacles[r.interaction].imageName

\* C24: a collision check made with no image for the skier dispatches nothing and
\* leaves the skier as the move left it, whatever obstacle lies there; the frame
\* still moves the skier and changes its state and speed by nothing but the end
\* of the jump, the speed increase and the rhino. An obstacle with no image is
\* never the one a collision search reports.
C24_NoBoundsNoCollision ==
    /\ [](\A f \in Founds :
            checkIfHitObstacle(move(World.skier), FALSE, f) = move(World.skier))
    /\ [](FoundHasBounds)
    /\ [][last'.blind
          => /\ last'.collided = {}
             /\ skier'.position = move(World.skier).position
             /\ ~isCrashed(skier')
             /\ ~isDead(skier')
                => /\ skier'.speed =
                        increaseSpeedIfThresholdMet(World.skier, currentScore).speed
                   /\ isSkiing(skier) => isSkiing(skier')]_vars

\* a frame has just moved a skiing skier and checked for collisions with no
\* image for it
C24_Witness ==
    /\ last.op = "frame"
    /\ last.blind
    /\ last.from = STATE_SKIING
    /\ isSkiing(skier)
    /\ skier.position.y.whole > 0

\* C25: at most one frame callback is pending at any time, so that one frame loop
\* runs while the game is playing.
C25_OneFrameLoop == pendingFrames <= 1

\* C26: in the frame in which the jump animation completes, the collision check
\* of the jumping block is dispatched with the skier skiing already: whatever is
\* not a ramp, a rock included, crashes it and stops it, and a ramp starts a new
\* jump. Such a frame ends with the skier crashed, in the first image of a new
\* jump, or dead.
C26_LandingFrameCollidesAsSkiing ==
    /\ [](\A in \in InputsOf(skier) :
            (/\ isJumping(skier)
             /\ skier.curAnimationFrame + 1 >= IMAGES_JUMPING
             /\ in.elapsed /\ in.bounds /\ in.found2 # NONE)
            => LET t == updateTrace(World.skier, in, speedAtJumpStart)
                   d == t.dispatches[1]
               IN  /\ Len(t.dispatches) = 1
                   /\ d.pre.state = STATE_SKIING
                   /\ IF in.found2 = JUMP_RAMP
                      THEN d.post.state = STATE_JUMPING
                      ELSE d.post.state = STATE_CRASHED /\ d.post.speed = 0)
    /\ [][(Updated /\ isJumping(skier) /\ last'.collided = {STATE_SKIING})
          => \/ isCrashed(skier')
             \/ isDead(skier')
             \/ isJumping(skier') /\ skier'.curAnimationFrame = 0]_vars

\* a frame that began in a jump has landed the skier and crashed it into what lay
\* there
C26_Witness ==
    /\ last.op = "frame"
    /\ last.from = STATE_JUMPING
    /\ last.collided = {STATE_SKIING}
    /\ isCrashed(skier)

\* C27: the turn-left (turn-right) key that recovers a crashed skier also moves
\* it, in the same handler, by the starting speed to the left (right) along x and
\* not at all along y.
C27_RecoveryMovesAside ==
    [][(Pressed({"LEFT", "RIGHT"}) /\ gameState = STATE_PLAYING /\ isCrashed(skier))
       => skier'.position =
            Moved(Coord(IF last'.key = "LEFT" THEN -STARTING_SPEED ELSE STARTING_SPEED,
                        0),
                  Coord(0, 0))]_vars

\* the turn-right key has just recovered a crashed skier and moved it to the right
C27_Witness ==
    /\ last.op = "key" /\ last.key = "RIGHT"
    /\ last.from = STATE_CRASHED
    /\ isSkiing(skier) /\ skier.direction = DIRECTION_RIGHT
    /\ skier.position = Moved(Coord(STARTING_SPEED, 0), Coord(0, 0))

====
